---- MODULE Spec2Model ----
(***************************************************************************)
(* scripts/sync_splash_color.py: copy the theme colour declared in         *)
(* app_config.dart into the two flutter_native_splash colour entries of    *)
(* pubspec.yaml.                                                           *)
(*                                                                         *)
(* Files and strings are sequences of one-character strings.  The three    *)
(* regular expressions of the script are kept as data (sequences of items) *)
(* and run by a backtracking matcher with Python's priorities: leftmost    *)
(* start, greedy repetition, MULTILINE anchors.                            *)
(***************************************************************************)
EXTENDS Integers, Sequences, FiniteSets, TLC

\* ------------------------------------------------------------------------
\* Characters
\* ------------------------------------------------------------------------
LF == "\n"
CR == "\r"
QUOTE == "\""

\* \s of a str pattern, restricted to the characters the model's files use
Whitespace == {" ", "\t", "\n", "\r", "\f"}

Digits == {"0", "1", "2", "3", "4", "5", "6", "7", "8", "9"}
UpperHex == {"A", "B", "C", "D", "E", "F"}
LowerHex == {"a", "b", "c", "d", "e", "f"}

\* [0-9A-Fa-f]
HexClass == Digits \cup UpperHex \cup LowerHex

\* [#0-9A-Fa-f]
ColorClass == {"#"} \cup HexClass

\* ------------------------------------------------------------------------
\* Regular expressions as data
\* ------------------------------------------------------------------------
\* one character of the set S
Ch(S) == [k |-> "rep", set |-> S, min |-> 1, max |-> 1, inf |-> FALSE]
\* S*  (greedy)
Star(S) == [k |-> "rep", set |-> S, min |-> 0, max |-> 0, inf |-> TRUE]
\* S+  (greedy)
Plus(S) == [k |-> "rep", set |-> S, min |-> 1, max |-> 1, inf |-> TRUE]
\* S{n}
Times(S, n) == [k |-> "rep", set |-> S, min |-> n, max |-> n, inf |-> FALSE]
\* ^ under re.MULTILINE
Bol == [k |-> "bol", set |-> {}, min |-> 0, max |-> 0, inf |-> FALSE]
\* $ under re.MULTILINE
Eol == [k |-> "eol", set |-> {}, min |-> 0, max |-> 0, inf |-> FALSE]
\* a literal string
Lit(s) == [k |-> "lit", set |-> {s}, min |-> Len(s), max |-> Len(s), inf |-> FALSE]

NoMatch == [ok |-> FALSE, start |-> 0, ends |-> <<>>]

RECURSIVE RunLen(_, _, _, _, _)
\* the number of characters of S that start at position p of t; at most max
\* of them unless inf
RunLen(t, p, S, max, inf) ==
  IF (~inf /\ max = 0) \/ p > Len(t) THEN 0
  ELSE IF t[p] \in S
       THEN 1 + RunLen(t, p + 1, S, IF inf THEN max ELSE max - 1, inf)
       ELSE 0

RECURSIVE MatchFrom(_, _, _, _)
RECURSIVE MatchRep(_, _, _, _, _)
RECURSIVE Backtrack(_, _, _, _, _, _)
\* The first match, in the engine's priority order, of the items k.. of re at
\* position p of t: ends[j] is the position after item k+j-1.
MatchFrom(re, k, t, p) ==
  IF k > Len(re) THEN [ok |-> TRUE, start |-> p, ends |-> <<>>]
  ELSE IF re[k].k = "bol"
       THEN IF p = 1 \/ t[p - 1] = LF
            THEN MatchRep(re, k, t, p, 0)
            ELSE NoMatch
  ELSE IF re[k].k = "eol"
       THEN IF p = Len(t) + 1 \/ t[p] = LF
            THEN MatchRep(re, k, t, p, 0)
            ELSE NoMatch
  ELSE IF re[k].k = "lit"
       THEN IF p + re[k].max - 1 <= Len(t) /\ SubSeq(t, p, p + re[k].max - 1) \in re[k].set
            THEN MatchRep(re, k, t, p, re[k].max)
            ELSE NoMatch
  ELSE MatchRep(re, k, t, p, RunLen(t, p, re[k].set, re[k].max, re[k].inf))

\* item k takes n characters, and the rest of the pattern is tried after them
MatchRep(re, k, t, p, n) ==
  IF n < re[k].min THEN NoMatch
  ELSE Backtrack(MatchFrom(re, k + 1, t, p + n), re, k, t, p, n)

\* when the rest failed, item k gives one character back
Backtrack(rest, re, k, t, p, n) ==
  IF rest.ok
  THEN [ok |-> TRUE, start |-> p, ends |-> <<p + n>> \o rest.ends]
  ELSE MatchRep(re, k, t, p, n - 1)

\* (mutant) the match at the rightmost of the positions ps
Rightmost(ps, re, t) ==
  IF ps = {} THEN NoMatch
  ELSE MatchFrom(re, 1, t, CHOOSE p \in ps : \A r \in ps : p >= r)

\* the match at the leftmost of the positions ps
Leftmost(ps, re, t) ==
  IF ps = {} THEN NoMatch
  ELSE MatchFrom(re, 1, t, CHOOSE p \in ps : \A r \in ps : p <= r)

\* re.search: the match at the leftmost position where one exists
Search(re, t) ==
  Leftmost({p \in 1..(Len(t) + 1) : MatchFrom(re, 1, t, p).ok}, re, t)

\* the text matched by the items a..b of the pattern
Group(m, t, a, b) ==
  SubSeq(t, IF a = 1 THEN m.start ELSE m.ends[a - 1], m.ends[b] - 1)

MatchEnd(m) == IF m.ends = <<>> THEN m.start ELSE m.ends[Len(m.ends)]

\* ------------------------------------------------------------------------
\* File input and output: Path.read_text and Path.write_text open the file
\* in text mode with newline=None
\* ------------------------------------------------------------------------
\* universal newlines on input: "\r\n" and a lone "\r" are read as "\n"
\* (a "\r" becomes "\n", and the "\n" that follows a "\r" is dropped)
ReadText(bytes) ==
  SelectSeq([i \in 1..Len(bytes) |->
               IF bytes[i] = CR THEN LF
               ELSE IF bytes[i] = LF /\ i > 1 /\ bytes[i - 1] = CR THEN ""
               ELSE bytes[i]],
            LAMBDA c : c # "")

RECURSIVE WriteText(_, _)
\* the data up to the first of the "\n" at ps, sep, and the rest written alike
WriteLine(ps, data, sep) ==
  IF ps = {} THEN data
  ELSE SubSeq(data, 1, (CHOOSE p \in ps : \A r \in ps : p <= r) - 1) \o sep
         \o WriteText(SubSeq(data, (CHOOSE p \in ps : \A r \in ps : p <= r) + 1,
                             Len(data)), sep)

\* on output every "\n" is written as os.linesep
WriteText(data, sep) == WriteLine({p \in 1..Len(data) : data[p] = LF}, data, sep)

\* ------------------------------------------------------------------------
\* extract_theme_hex
\* ------------------------------------------------------------------------
themePrimaryColorValue ==
  <<"t", "h", "e", "m", "e", "P", "r", "i", "m", "a", "r", "y",
    "C", "o", "l", "o", "r", "V", "a", "l", "u", "e">>

HexDigitCount == 6

\* (mutant) the alpha prefix in either case, as under re.IGNORECASE
theme_prefix_ignorecase ==
  << Lit(themePrimaryColorValue), Star(Whitespace), Ch({"="}), Star(Whitespace),
     [k |-> "lit", set |-> {<<"0", "x", "F", "F">>, <<"0", "x", "f", "f">>},
      min |-> 4, max |-> 4, inf |-> FALSE] >>

\* r"themePrimaryColorValue\s*=\s*0xFF([0-9A-Fa-f]{6})"
theme_prefix ==
  << Lit(themePrimaryColorValue), Star(Whitespace), Ch({"="}), Star(Whitespace),
     Lit(<<"0", "x", "F", "F">>) >>

theme_pattern == theme_prefix \o <<Times(HexClass, HexDigitCount)>>

\* str.upper on one character of [0-9A-Fa-f]
UpperChar(c) ==
  CASE c = "a" -> "A" [] c = "b" -> "B" [] c = "c" -> "C"
    [] c = "d" -> "D" [] c = "e" -> "E" [] c = "f" -> "F"
    [] OTHER -> c

\* (mutant) the digits as they were written
upper_missing(s) == s

upper(s) == [j \in 1..Len(s) |-> UpperChar(s[j])]

\* the value returned, when the pattern is found
ThemeHex(m, t) ==
  <<"#">> \o upper(Group(m, t, Len(theme_prefix) + 1, Len(theme_pattern)))

\* ------------------------------------------------------------------------
\* update_pubspec
\* ------------------------------------------------------------------------
color_key == <<"c", "o", "l", "o", "r", ":">>
android_12_key == <<"a", "n", "d", "r", "o", "i", "d", "_", "1", "2", ":">>

\* a pattern of the shape (g1)value(g2), substituted by \1{hex_color}\2
\* r"(^\s*color:\s*\")[#0-9A-Fa-f]+(\"\s*$)", re.MULTILINE
pattern_root ==
  [g1 |-> <<Bol, Star(Whitespace), Lit(color_key), Star(Whitespace), Ch({QUOTE})>>,
   value |-> <<Plus(ColorClass)>>,
   g2 |-> <<Ch({QUOTE}), Star(Whitespace), Eol>>]

\* r"(^\s*android_12:\s*\n\s*color:\s*\")[#0-9A-Fa-f]+(\"\s*$)", re.MULTILINE
pattern_android12 ==
  [g1 |-> <<Bol, Star(Whitespace), Lit(android_12_key), Star(Whitespace), Ch({LF}),
            Star(Whitespace), Lit(color_key), Star(Whitespace), Ch({QUOTE})>>,
   value |-> <<Plus(ColorClass)>>,
   g2 |-> <<Ch({QUOTE}), Star(Whitespace), Eol>>]

Items(pat) == pat.g1 \o pat.value \o pat.g2

\* (mutant) the new value put before the old one: the template \1{hex_color}
\* with the old value left in the second group
ExpandKeepingOld(pat, m, t, hex) ==
  Group(m, t, 1, Len(pat.g1)) \o hex
    \o Group(m, t, Len(pat.g1) + 1, Len(Items(pat)))

\* (mutant) the closing quote written by hand in place of \2
ExpandClosingQuote(pat, m, t, hex) ==
  Group(m, t, 1, Len(pat.g1)) \o hex \o <<QUOTE>>

\* the expansion of the template rf"\1{hex_color}\2" for the match m
Expand(pat, m, t, hex) ==
  Group(m, t, 1, Len(pat.g1)) \o hex
    \o Group(m, t, Len(pat.g1) + Len(pat.value) + 1, Len(Items(pat)))

\* the text with the match m replaced, and the number of replacements
Replaced(m, pat, hex, t) ==
  IF m.ok
  THEN [text |-> SubSeq(t, 1, m.start - 1) \o Expand(pat, m, t, hex)
                   \o SubSeq(t, MatchEnd(m), Len(t)),
        count |-> 1]
  ELSE [text |-> t, count |-> 0]

\* pattern.subn(rf"\1{hex_color}\2", t, count=1)
subn(pat, hex, t) == Replaced(Search(Items(pat), t), pat, hex, t)

\* ------------------------------------------------------------------------
\* The files the script is run on
\* ------------------------------------------------------------------------
MaxDeclLines == 2
MaxLines == 4

\* the two line terminators a checkout may carry, and os.linesep
Terminators == {<<LF>>, <<CR, LF>>}

RECURSIVE Join(_, _)
\* the file made of the lines ls, each ended by eol
Join(ls, eol) ==
  IF ls = <<>> THEN <<>>
  ELSE Head(ls) \o eol \o Join(Tail(ls), eol)

\* lines of app_config.dart
\*   static const int themePrimaryColorValue = 0x<alpha><digits>;
DeclLine(gap, alpha, digits) ==
  [kind |-> "decl", gap |-> gap, alpha |-> alpha, digits |-> digits]

DeclLines ==
  { DeclLine(<<" ">>, <<"F", "F">>, <<"a", "1", "b", "2", "c", "3">>),
    DeclLine(<<" ">>, <<"F", "F">>, <<"A", "1", "B", "2", "C", "3">>),
    DeclLine(<<" ">>, <<"f", "f">>, <<"a", "1", "b", "2", "c", "3">>),
    DeclLine(<<>>, <<"F", "F">>, <<"2", "1", "9", "6", "F", "3">>),
    DeclLine(<<" ">>, <<"F", "F">>, <<"a", "1", "b", "2", "c">>),
    [kind |-> "other", gap |-> <<>>, alpha |-> <<>>, digits |-> <<>>] }

DeclChars(l) ==
  IF l.kind = "decl"
  THEN <<"c", "o", "n", "s", "t", " ">> \o themePrimaryColorValue \o l.gap \o <<"=">> \o l.gap
         \o <<"0", "x">> \o l.alpha \o l.digits \o <<";">>
  ELSE <<"c", "l", "a", "s", "s", " ", "A", "p", "p", "C", "o", "n", "f", "i", "g", " ", "{">>

DeclFile(d, eol) == Join([j \in 1..Len(d) |-> DeclChars(d[j])], eol)

Declarations == UNION { [1..n -> DeclLines] : n \in 1..MaxDeclLines }

\* lines of pubspec.yaml
Field(ind, val, trail) == [key |-> "color", ind |-> ind, val |-> val, trail |-> trail]

Marker == [key |-> "android_12", ind |-> <<" ", " ">>, val |-> <<>>, trail |-> <<>>]
Section == [key |-> "other", ind |-> <<>>, val |-> <<>>, trail |-> <<>>]
Blank == [key |-> "blank", ind |-> <<>>, val |-> <<>>, trail |-> <<>>]

ManifestLines ==
  { Field(<<" ", " ">>, <<"#", "0", "0", "0", "0", "0", "0">>, <<" ">>),
    Field(<<" ", " ", " ", " ">>, <<"#", "A", "1", "B", "2", "C", "3">>, <<>>),
    Field(<<" ", " ">>, <<>>, <<>>),
    Marker,
    Section,
    Blank }

ManifestChars(l) ==
  CASE l.key = "color" ->
         l.ind \o color_key \o <<" ", QUOTE>> \o l.val \o <<QUOTE>> \o l.trail
    [] l.key = "android_12" -> l.ind \o android_12_key \o l.trail
    [] l.key = "blank" -> <<>>
    [] OTHER -> <<"f", "l", "u", "t", "t", "e", "r", "_", "n", "a", "t", "i", "v", "e", "_", "s", "p", "l", "a", "s", "h", ":">>

ManifestFile(m, eol) == Join([j \in 1..Len(m) |-> ManifestChars(m[j])], eol)

Manifests == UNION { [1..n -> ManifestLines] : n \in 0..MaxLines }

PlainDeclaration == << DeclLine(<<" ">>, <<"F", "F">>, <<"a", "1", "b", "2", "c", "3">>) >>

PlainManifest ==
  << Section,
     Field(<<" ", " ">>, <<"#", "0", "0", "0", "0", "0", "0">>, <<" ">>),
     Marker,
     Field(<<" ", " ">>, <<"#", "0", "0", "0", "0", "0", "0">>, <<" ">>) >>

\* ------------------------------------------------------------------------
\* State
\* ------------------------------------------------------------------------
VARIABLES
  app_config,     \* contents of lib/core/constants/app_config.dart
  pubspec,        \* contents of pubspec.yaml
  linesep,        \* os.linesep of the platform the script runs on
  pc,             \* "extract", "update", "print", "exit"
  hex_color,      \* main: the value extract_theme_hex returned
  text,           \* update_pubspec: the text read
  new_text,       \* update_pubspec: the text after the two substitutions
  count_root,     \* update_pubspec: substitutions made by pattern_root
  count_a12,      \* update_pubspec: substitutions made by pattern_android12
  changed,        \* main: the value update_pubspec returned
  stdout,         \* the lines printed
  stderr,         \* the SystemExit message, "" while there is none
  exit_code,      \* the exit status, read when pc = "exit"
  written,        \* this run called PUBSPEC.write_text
  again,          \* this run is not the first on these files
  decl,           \* the lines app_config was made of
  manifest,       \* the lines pubspec was made of before the first run
  eol,            \* the line terminator of the two files before the first run
  pubspec0,       \* pubspec when this run started
  prev_new_text   \* new_text of the previous run, <<>> in the first

vars ==
  << app_config, pubspec, linesep, pc, hex_color, text, new_text, count_root,
     count_a12, changed, stdout, stderr, exit_code, written, again, decl,
     manifest, eol, pubspec0, prev_new_text >>

files == << app_config, linesep, decl, manifest, eol >>

Init ==
  /\ linesep \in Terminators
  /\ eol \in Terminators
  /\ \/ decl = PlainDeclaration /\ manifest \in Manifests
     \/ decl \in Declarations /\ manifest = PlainManifest
  /\ app_config = DeclFile(decl, eol)
  /\ pubspec = ManifestFile(manifest, eol)
  /\ pubspec0 = pubspec
  /\ pc = "extract"
  /\ hex_color = <<>>
  /\ text = <<>>
  /\ new_text = <<>>
  /\ count_root = 0
  /\ count_a12 = 0
  /\ changed = FALSE
  /\ stdout = <<>>
  /\ stderr = ""
  /\ exit_code = 0
  /\ written = FALSE
  /\ again = FALSE
  /\ prev_new_text = <<>>

\* ------------------------------------------------------------------------
\* main
\* ------------------------------------------------------------------------
\* the messages are written here without their backquotes
ThemeNotFound ==
  "Could not find themePrimaryColorValue = 0xFF...... in app_config.dart"

\* hex_color = extract_theme_hex()
ExtractThemeHex ==
  /\ pc = "extract"
  /\ \E t \in {ReadText(app_config)} :
     \E m \in {Search(theme_pattern, t)} :
        IF ~m.ok
        THEN /\ stderr' = ThemeNotFound
             /\ exit_code' = 1
             /\ pc' = "exit"
             /\ UNCHANGED hex_color
        ELSE /\ hex_color' = ThemeHex(m, t)
             /\ pc' = "update"
             /\ UNCHANGED << stderr, exit_code >>
  /\ UNCHANGED << files, pubspec, text, new_text, count_root, count_a12, changed,
                  stdout, written, again, pubspec0, prev_new_text >>

\* if count_root == 0 or count_a12 == 0
EntryMissing(n_root, n_a12) == n_root = 0 \/ n_a12 = 0

\* (mutant) one message for each entry
UpdateFailedNaming(n_root, n_a12) ==
  IF n_root = 0
  THEN "Could not update flutter_native_splash colors in pubspec.yaml. Expected color entry."
  ELSE "Could not update flutter_native_splash colors in pubspec.yaml. Expected android_12 -> color entry."

\* the message of the SystemExit update_pubspec raises
UpdateFailed(n_root, n_a12) ==
  "Could not update flutter_native_splash colors in pubspec.yaml. Expected color and android_12 -> color entries."

\* (mutant) the file is written on every run
AlwaysWrite(new, old) == TRUE

\* if new_text != text
NeedsWrite(new, old) == new # old

\* (mutant) update_pubspec with the write moved before the check of the counts
UpdatePubspecWriteFirst ==
  /\ pc = "update"
  /\ \E t \in {ReadText(pubspec)} :
     \E root \in {subn(pattern_root, hex_color, t)} :
     \E a12 \in {subn(pattern_android12, hex_color, root.text)} :
        /\ text' = t
        /\ new_text' = a12.text
        /\ count_root' = root.count
        /\ count_a12' = a12.count
        /\ IF NeedsWrite(a12.text, t)
           THEN /\ pubspec' = WriteText(a12.text, linesep)
                /\ written' = TRUE
           ELSE UNCHANGED << pubspec, written >>
        /\ IF EntryMissing(root.count, a12.count)
           THEN /\ stderr' = UpdateFailed(root.count, a12.count)
                /\ exit_code' = 1
                /\ pc' = "exit"
                /\ UNCHANGED changed
           ELSE /\ changed' = NeedsWrite(a12.text, t)
                /\ pc' = "print"
                /\ UNCHANGED << stderr, exit_code >>
  /\ UNCHANGED << files, hex_color, stdout, again, pubspec0, prev_new_text >>

\* changed = update_pubspec(hex_color)
UpdatePubspec ==
  /\ pc = "update"
  /\ \E t \in {ReadText(pubspec)} :
     \E root \in {subn(pattern_root, hex_color, t)} :
     \E a12 \in {subn(pattern_android12, hex_color, root.text)} :
        /\ text' = t
        /\ new_text' = a12.text
        /\ count_root' = root.count
        /\ count_a12' = a12.count
        /\ IF EntryMissing(root.count, a12.count)
           THEN /\ stderr' = UpdateFailed(root.count, a12.count)
                /\ exit_code' = 1
                /\ pc' = "exit"
                /\ UNCHANGED << pubspec, written, changed >>
           ELSE /\ IF NeedsWrite(a12.text, t)
                   THEN /\ pubspec' = WriteText(a12.text, linesep)
                        /\ written' = TRUE
                        /\ changed' = TRUE
                   ELSE /\ changed' = FALSE
                        /\ UNCHANGED << pubspec, written >>
                /\ pc' = "print"
                /\ UNCHANGED << stderr, exit_code >>
  /\ UNCHANGED << files, hex_color, stdout, again, pubspec0, prev_new_text >>

\* status = 'updated' if changed else 'already in sync'
Status(c) == IF c THEN "updated" ELSE "already in sync"

\* print(f'Splash color {status}: {hex_color}'), and the script ends
PrintStatus ==
  /\ pc = "print"
  /\ stdout' = Append(stdout, << "Splash color ", Status(changed), ": ", hex_color >>)
  /\ exit_code' = 0
  /\ pc' = "exit"
  /\ UNCHANGED << files, pubspec, hex_color, text, new_text, count_root, count_a12,
                  changed, stderr, written, again, pubspec0, prev_new_text >>

\* the script is started again on the files the last run left
RunAgain ==
  /\ pc = "exit"
  /\ again' = TRUE
  /\ pc' = "extract"
  /\ pubspec0' = pubspec
  /\ prev_new_text' = new_text
  /\ hex_color' = <<>>
  /\ text' = <<>>
  /\ new_text' = <<>>
  /\ count_root' = 0
  /\ count_a12' = 0
  /\ changed' = FALSE
  /\ stdout' = <<>>
  /\ stderr' = ""
  /\ exit_code' = 0
  /\ written' = FALSE
  /\ UNCHANGED << files, pubspec >>

Next == ExtractThemeHex \/ UpdatePubspec \/ PrintStatus \/ RunAgain

Spec == Init /\ [][Next]_vars

\* ------------------------------------------------------------------------
\* What the files hold, read off the lines they were made of
\* ------------------------------------------------------------------------
Least(S) == CHOOSE p \in S : \A r \in S : p <= r

\* a declaration line of the form themePrimaryColorValue = 0xFF<6 hex digits>
Declares(l) ==
  /\ l.kind = "decl"
  /\ l.alpha = <<"F", "F">>
  /\ Len(l.digits) >= HexDigitCount

Declaring(d) == {j \in 1..Len(d) : Declares(d[j])}

\* c is the letter or digit d, in upper case
UpperOf(c, d) ==
  /\ c \in Digits \cup UpperHex
  /\ \/ c = d
     \/ <<d, c>> \in {<<"a", "A">>, <<"b", "B">>, <<"c", "C">>,
                     <<"d", "D">>, <<"e", "E">>, <<"f", "F">>}

\* h is '#' and the six digits ds in upper case
HexOf(h, ds) ==
  /\ Len(h) = 7
  /\ h[1] = "#"
  /\ \A j \in 1..6 : UpperOf(h[j + 1], ds[j])

\* colour lines of the manifest m: all, those holding a value, those right
\* after an android_12: line (blank lines aside), those not
Colors(m) == {j \in 1..Len(m) : m[j].key = "color"}
Valued(m) == {j \in Colors(m) : m[j].val # <<>>}
NestedIn(m) ==
  {j \in Colors(m) :
     \E i \in 1..(j - 1) :
        /\ m[i].key = "android_12"
        /\ \A k \in (i + 1)..(j - 1) : m[k].key = "blank"}
RootIn(m) == Colors(m) \ NestedIn(m)

\* the manifest m with the value h in the colour lines S
WithValue(m, S, h) ==
  [j \in 1..Len(m) |-> IF j \in S THEN [m[j] EXCEPT !.val = h] ELSE m[j]]

RECURSIVE LinesOf(_)
SplitAt(ps, t) ==
  IF ps = {} THEN IF t = <<>> THEN <<>> ELSE <<t>>
  ELSE <<SubSeq(t, 1, Least(ps) - 1)>> \o LinesOf(SubSeq(t, Least(ps) + 1, Len(t)))

\* the lines of a file, without their terminators
LinesOf(t) == SplitAt({p \in 1..Len(t) : t[p] = LF}, t)

\* what stands between the first two quotes of a line
Between(qs, line) == SubSeq(line, Least(qs) + 1, Least(qs \ {Least(qs)}) - 1)
Quoted(line) == Between({p \in 1..Len(line) : line[p] = QUOTE}, line)

\* the value of the colour line j of a file
ValueAt(file, j) == Quoted(LinesOf(SelectSeq(file, LAMBDA c : c # CR))[j])

FirstRun == ~again
Succeeded == pc = "exit" /\ exit_code = 0
Failed == pc = "exit" /\ exit_code = 1

\* ------------------------------------------------------------------------
\* Claims
\* ------------------------------------------------------------------------

\* C1: when the manifest holds a root-level colour field and a colour field
\* right after an android_12: line, in either order, a run that succeeds leaves
\* both holding the colour extracted from the declaration.
C1_BothFieldsSynced ==
  (FirstRun /\ Succeeded
     /\ RootIn(manifest) \cap Valued(manifest) # {}
     /\ NestedIn(manifest) \cap Valued(manifest) # {})
  => /\ ValueAt(pubspec, Least(RootIn(manifest) \cap Valued(manifest))) = hex_color
     /\ ValueAt(pubspec, Least(NestedIn(manifest) \cap Valued(manifest))) = hex_color

\* C2: once extraction is over, a declaration file with a line of the form
\* themePrimaryColorValue = 0xFF<6 hex digits D> has given '#' and D in upper
\* case, D taken from the first such line.
C2_ExtractsFirstUppercased ==
  (pc # "extract" /\ Declaring(decl) # {})
  => HexOf(hex_color, decl[Least(Declaring(decl))].digits)

C2_Witness ==
  /\ pc = "update"
  /\ Cardinality(Declaring(decl)) >= 2
  /\ \E j \in Declaring(decl) : decl[j].digits # decl[Least(Declaring(decl))].digits
  /\ \E k \in 1..6 : decl[Least(Declaring(decl))].digits[k] \in LowerHex

\* C3 as stated: the literals 0xffa1b2c3 and 0xFFA1B2C3 both extract, and both
\* give #A1B2C3.
C3_AnyCaseLiteral ==
  (pc # "extract"
     /\ Len(decl) = 1 /\ decl[1].kind = "decl"
     /\ decl[1].alpha \in {<<"F", "F">>, <<"f", "f">>}
     /\ decl[1].digits \in {<<"a", "1", "b", "2", "c", "3">>, <<"A", "1", "B", "2", "C", "3">>})
  => hex_color = <<"#", "A", "1", "B", "2", "C", "3">>

\* C3 amended: the six colour digits may be in either case, 0xFFa1b2c3 and
\* 0xFFA1B2C3 both give #A1B2C3; the alpha prefix must be the upper-case FF,
\* and 0xffa1b2c3 ends the run with the declaration-not-found error.
C3_DigitsAnyCasePrefixUpper ==
  (pc # "extract" /\ Len(decl) = 1 /\ decl[1].kind = "decl"
     /\ decl[1].digits \in {<<"a", "1", "b", "2", "c", "3">>, <<"A", "1", "B", "2", "C", "3">>})
  => /\ decl[1].alpha = <<"F", "F">> => hex_color = <<"#", "A", "1", "B", "2", "C", "3">>
     /\ decl[1].alpha = <<"f", "f">>
          => Failed /\ stderr = ThemeNotFound /\ hex_color = <<>>

C3_Witness ==
  /\ Failed
  /\ Len(decl) = 1
  /\ decl[1].alpha = <<"f", "f">>
  /\ decl[1].digits = <<"a", "1", "b", "2", "c", "3">>

C6_Idempotent ==
  /\ (again /\ (pc = "print" \/ Succeeded))
     => /\ changed = FALSE
        /\ ~written
        /\ pubspec = pubspec0
        /\ new_text = text
        /\ new_text = prev_new_text
  /\ (FirstRun /\ (pc = "print" \/ Succeeded)
        /\ RootIn(manifest) \cap Valued(manifest) # {}
        /\ NestedIn(manifest) \cap Valued(manifest) # {}
        /\ manifest[Least(RootIn(manifest) \cap Valued(manifest))].val = hex_color
        /\ manifest[Least(NestedIn(manifest) \cap Valued(manifest))].val = hex_color)
     => /\ changed = FALSE
        /\ new_text = text
        /\ pubspec = pubspec0

C6_Witness ==
  /\ again
  /\ Succeeded
  /\ pubspec0 # ManifestFile(manifest, eol)

\* C7: in a run that succeeds pubspec.yaml is written exactly when the patched
\* text differs from the text read; the line printed says 'updated' exactly
\* when it was written and 'already in sync' when not, with the extracted
\* colour, and the exit status is success.
C7_WriteIffChanged ==
  /\ (pc = "print" \/ Succeeded)
     => /\ written <=> new_text # text
        /\ changed <=> written
        /\ written => pubspec = WriteText(new_text, linesep)
        /\ ~written => pubspec = pubspec0
  /\ Succeeded
     => /\ stdout = << << "Splash color ",
                          IF written THEN "updated" ELSE "already in sync",
                          ": ", hex_color >> >>
        /\ stderr = ""
        /\ Declaring(decl) # {}
        /\ HexOf(hex_color, decl[Least(Declaring(decl))].digits)

C7_Witness ==
  /\ Succeeded
  /\ written
  /\ new_text # text

C9_OnlyFirstOccurrences ==
  (FirstRun /\ Succeeded)
  => \A j \in Colors(manifest) :
        j \notin {Least(Valued(manifest)),
                  Least(NestedIn(manifest) \cap Valued(manifest))}
        => ValueAt(pubspec, j) = manifest[j].val

C9_Witness ==
  /\ FirstRun
  /\ Succeeded
  /\ written
  /\ Least(Valued(manifest)) \in RootIn(manifest)
  /\ manifest[Least(Valued(manifest))].val # hex_color
  /\ \E j \in Valued(manifest) :
        /\ j \notin {Least(Valued(manifest)),
                     Least(NestedIn(manifest) \cap Valued(manifest))}
        /\ manifest[j].val # hex_color
        /\ ValueAt(pubspec, j) = manifest[j].val

\* C10: a manifest whose root or android_12 colour entry holds the empty value
\* "" is a valid input: the entry is located, the run does not end with the
\* not-found error, and the entry is set to the extracted colour.
C10_EmptyValueAccepted ==
  (FirstRun /\ pc = "exit" /\ Declaring(decl) # {}
     /\ RootIn(manifest) # {} /\ NestedIn(manifest) # {}
     /\ \/ manifest[Least(RootIn(manifest))].val = <<>>
        \/ manifest[Least(NestedIn(manifest))].val = <<>>)
  => /\ Succeeded
     /\ ValueAt(pubspec, Least(RootIn(manifest))) = hex_color
     /\ ValueAt(pubspec, Least(NestedIn(manifest))) = hex_color

====
